---------------------------- MODULE Spec2Model ----------------------------
(***************************************************************************)
(* A model of ExportLongstanding.py: the consolidator that walks week      *)
(* folders, extracts canonical tables from spreadsheet files and merges    *)
(* them into one persisted master CSV file.                                *)
(*                                                                         *)
(* Text is modelled as a sequence of one-character strings, so that the    *)
(* code's string operations (strip, lower, split, substring tests, regular *)
(* expression searches) are computed and not assumed.                      *)
(*                                                                         *)
(* The module holds several specifications over the same variables:        *)
(*   SpecDays      clean_days_value applied to bounded inputs              *)
(*   SpecParse     parse_week_input applied to bounded inputs              *)
(*   SpecClassify  is_excel_file / get_file_type / the walk's file filter  *)
(*   SpecSchema    map_columns_to_output + process_file on bounded tables  *)
(*   SpecWeek      the file loop of process_week, one file per step        *)
(*   Spec          main(): the week loop and create_master_file            *)
(*   SpecYears     main() run for two years over one master file           *)
(***************************************************************************)
EXTENDS Integers, Sequences, FiniteSets, Bags, TLC

VARIABLES
    days_value,      \* clean_days_value: its argument
    days_result,     \* clean_days_value: its return value
    week_input,      \* main / parse_week_input: the text typed for the weeks
    week_numbers,    \* main / parse_week_input: the parsed list of weeks
    file,            \* process_week: the file name of the loop's current turn
    first_type,      \* get_file_type(file): what its first call returned
    file_type,       \* get_file_type(file): what its latest call returned
    walk,            \* what the loop's turn on `file` did (WalkFile)
    src_df,          \* process_file: what reading the file gave
    src_type,        \* process_file: its file_type argument
    out_df,          \* process_file: its return value
    wk_listing,      \* process_week: the files os.walk yields, with what
                     \*   reading each of them gives
    wk_pos,          \* process_week: the position of the loop in wk_listing
    all_data,        \* process_week: the tables collected so far
    pc,              \* main: "idle", "weeks" (the loop of lines 368-381),
                     \*   "merge" (before line 396) or "done"
    year,            \* main: the year typed, as an integer
    week_idx,        \* main: the position of the loop in week_numbers
    all_df_list,     \* main: the tables of the weeks processed so far
    successful_weeks,
    failed_weeks,
    master_file,     \* main: what create_master_file returned
    outcome,         \* main: which of its final messages the run printed
    master_csv,      \* the persisted ExportLongstanding_MasterData.csv
    master_at_start, \* history: master_csv when the run began
    gen,             \* history: per week, the rows of the last merge that
                     \*   wrote that week
    attempted,       \* history: the calls of process_week of this run, in
                     \*   order: the week, whether its folder was found and
                     \*   how many tables came back
    row_years,       \* history: per week, the years of the runs that wrote
                     \*   the rows of that week the file holds
    years_at_start,  \* history: row_years when the run began
    fault,           \* history: what failed in create_master_file, if anything
    writes           \* history: how often this run wrote master_csv

vars == <<days_value, days_result, week_input, week_numbers,
          file, first_type, file_type, walk, src_df, src_type, out_df,
          wk_listing, wk_pos, all_data,
          pc, year, week_idx, all_df_list, successful_weeks, failed_weeks,
          master_file, outcome, master_csv, master_at_start, gen, row_years,
          years_at_start, attempted,
          fault, writes>>

\* The variables of each function, for UNCHANGED.
daysVars == <<days_value, days_result>>
parseVars == <<week_input, week_numbers>>
classifyVars == <<file, first_type, file_type, walk>>
schemaVars == <<src_df, src_type, out_df>>
weekVars == <<wk_listing, wk_pos, all_data>>
runVars == <<pc, year, week_idx, all_df_list, successful_weeks, failed_weeks,
             master_file, outcome, master_csv, master_at_start, gen, row_years,
          years_at_start, attempted,
             fault, writes>>

(***************************************************************************)
(* Characters and text helpers (Python str methods and re classes)         *)
(***************************************************************************)

\* Python's None / pandas' missing value, and "this function has not returned yet".
NA == <<"<NA>">>
NotCalled == [type |-> "NotCalled", text |-> <<>>, twice |-> 0]

\* A table that does not exist: a read that raised, a function that returned
\* None.
NoTable == [none |-> "None"]
NoCall == [none |-> "NotCalled"]

\* The variables of a function the specification at hand does not run.
DaysIdle == days_value = NA /\ days_result = NotCalled
ParseIdle == week_input = <<>> /\ week_numbers = <<>>
ClassifyIdle ==
    /\ file = <<>>
    /\ first_type = "NotCalled"
    /\ file_type = "NotCalled"
    /\ walk = [classified |-> FALSE, file_type |-> "NotCalled", processed |-> FALSE]
SchemaIdle == src_df = NoTable /\ src_type = "NotCalled" /\ out_df = NoCall
WeekIdle == wk_listing = <<>> /\ wk_pos = 0 /\ all_data = <<>>
RunIdle ==
    /\ pc = "off" /\ year = 0 /\ week_idx = 0
    /\ all_df_list = <<>> /\ successful_weeks = <<>> /\ failed_weeks = <<>>
    /\ master_file = "NotCalled" /\ outcome = "none"
    /\ master_csv = [exists |-> FALSE, rows |-> <<>>]
    /\ master_at_start = [exists |-> FALSE, rows |-> <<>>]
    /\ gen = <<>> /\ row_years = <<>> /\ years_at_start = <<>>
    /\ attempted = <<>> /\ fault = "none" /\ writes = 0

Digits == <<"0", "1", "2", "3", "4", "5", "6", "7", "8", "9">>

\* \d of the re module (ASCII digits are the ones the model's alphabets hold).
IsDigit(c) == c \in {Digits[d] : d \in 1..Len(Digits)}

\* int() of one digit character.
DigitVal(c) == (CHOOSE d \in 1..Len(Digits) : Digits[d] = c) - 1

\* \s of the re module and the characters str.strip() removes.
IsSpace(c) == c \in {" ", "\t"}

\* The letters, upper case and lower case, position by position.
UpperLetters ==
    <<"A", "B", "C", "D", "E", "F", "G", "H", "I", "J", "K", "L", "M",
      "N", "O", "P", "Q", "R", "S", "T", "U", "V", "W", "X", "Y", "Z">>
LowerLetters ==
    <<"a", "b", "c", "d", "e", "f", "g", "h", "i", "j", "k", "l", "m",
      "n", "o", "p", "q", "r", "s", "t", "u", "v", "w", "x", "y", "z">>

\* str.lower() on one character.
LowerChar(c) ==
    IF \E k \in 1..Len(UpperLetters) : UpperLetters[k] = c
    THEN LowerLetters[CHOOSE k \in 1..Len(UpperLetters) : UpperLetters[k] = c]
    ELSE c

\* str.lower()
Lower(s) == [i \in 1..Len(s) |-> LowerChar(s[i])]

\* str.strip(): drop leading and trailing whitespace.
Strip(s) ==
    LET nonsp == {i \in 1..Len(s) : ~IsSpace(s[i])}
    IN  IF nonsp = {} THEN <<>>
        ELSE LET lo == CHOOSE i \in nonsp : \A j \in nonsp : i <= j
                 hi == CHOOSE i \in nonsp : \A j \in nonsp : j <= i
             IN  SubSeq(s, lo, hi)

AllDigits(s) == \A i \in 1..Len(s) : IsDigit(s[i])

\* int() of a non-empty string of digits.
RECURSIVE DigitsToInt(_)
DigitsToInt(s) ==
    IF s = <<>> THEN 0
    ELSE 10 * DigitsToInt(SubSeq(s, 1, Len(s) - 1)) + DigitVal(s[Len(s)])

\* The first position >= i of s that holds no digit (Len(s)+1 when none).
DigitRunEnd(s, i) ==
    LET stops == {j \in i..Len(s) : ~IsDigit(s[j])}
    IN  IF stops = {} THEN Len(s) + 1
        ELSE CHOOSE j \in stops : \A k \in stops : j <= k

\* The first position >= i of s that holds no whitespace (Len(s)+1 when none).
SpaceRunEnd(s, i) ==
    LET stops == {j \in i..Len(s) : ~IsSpace(s[j])}
    IN  IF stops = {} THEN Len(s) + 1
        ELSE CHOOSE j \in stops : \A k \in stops : j <= k

\* Whether t occurs in s at position i.
OccursAt(s, t, i) ==
    /\ i >= 1
    /\ i + Len(t) - 1 <= Len(s)
    /\ \A k \in 1..Len(t) : s[i + k - 1] = t[k]

\* Python's "t in s" on strings.
Contains(s, t) == \E i \in 1..(Len(s) - Len(t) + 1) : OccursAt(s, t, i)

\* str.endswith(t)
EndsWith(s, t) == Len(t) <= Len(s) /\ OccursAt(s, t, Len(s) - Len(t) + 1)

(***************************************************************************)
(* clean_days_value                                                        *)
(***************************************************************************)

\* The en-dash U+2013 of the third pattern, as one character (the module's
\* own text is ASCII).
EnDash == "U+2013"

\* The separators of range_patterns, in the order of the list.
range_patterns == << <<"t", "o">>, <<"-">>, <<EnDash>>, <<"~">> >>

\* A match of (\d+)\s*SEP\s*(\d+) that starts at position i of s: the two
\* groups, or <<>> when the pattern does not match there.  \d+ and \s* are
\* greedy; giving back a digit or a blank can never help, since what follows
\* is a separator or a digit.
RangeMatchAt(s, sep, i) ==
    IF i > Len(s) \/ ~IsDigit(s[i]) THEN <<>>
    ELSE LET j == DigitRunEnd(s, i)
             k == SpaceRunEnd(s, j)
         IN  IF ~OccursAt(s, sep, k) THEN <<>>
             ELSE LET m == SpaceRunEnd(s, k + Len(sep))
                  IN  IF m > Len(s) \/ ~IsDigit(s[m]) THEN <<>>
                      ELSE << SubSeq(s, i, j - 1),
                              SubSeq(s, m, DigitRunEnd(s, m) - 1) >>

\* re.search(pattern, s): the leftmost match, <<>> when there is none.
RangeSearch(s, sep) ==
    LET hits == {i \in 1..Len(s) : RangeMatchAt(s, sep, i) # <<>>}
    IN  IF hits = {} THEN <<>>
        ELSE RangeMatchAt(s, sep, CHOOSE i \in hits : \A j \in hits : i <= j)

\* re.search(r'(\d+)', s): the leftmost maximal run of digits.
SingleSearch(s) ==
    LET hits == {i \in 1..Len(s) : IsDigit(s[i])}
    IN  IF hits = {} THEN <<>>
        ELSE LET i == CHOOSE h \in hits : \A j \in hits : h <= j
             IN  SubSeq(s, i, DigitRunEnd(s, i) - 1)

\* Python values, as cells of a table hold them.  A number is kept as twice
\* its value, so that the float (start + end) / 2 is exact in integer
\* arithmetic.  PyNone is None and NaN alike: pandas treats both as missing.
PyNone == [type |-> "None", text |-> <<>>, twice |-> 0]
PyFloatHalf(n) == [type |-> "float", text |-> <<>>, twice |-> n]
PyInt(n) == [type |-> "int", text |-> <<>>, twice |-> 2 * n]
PyStr(t) == [type |-> "str", text |-> t, twice |-> 0]

\* A slip: floor division, (start + end) // 2.
RangeAverageFloor(start, end) == PyFloatHalf(2 * ((start + end) \div 2))

\* (start + end) / 2 of line 60: Python's true division.
RangeAverage(start, end) == PyFloatHalf(start + end)

\* The loop over range_patterns from pattern p on: the first pattern that
\* matches returns (start + end) / 2.
RECURSIVE TryRangePatterns(_, _)
TryRangePatterns(days_str, p) ==
    IF p > Len(range_patterns) THEN PyNone
    ELSE LET match == RangeSearch(days_str, range_patterns[p])
         IN  IF match # <<>>
             THEN RangeAverage(DigitsToInt(match[1]), DigitsToInt(match[2]))
             ELSE TryRangePatterns(days_str, p + 1)

clean_days_value(v) ==
    IF v = NA \/ v = <<>> THEN PyNone
    ELSE LET days_str == Lower(Strip(v))
             ranged == TryRangePatterns(days_str, 1)
             match == SingleSearch(days_str)
         IN  IF ranged # PyNone THEN ranged
             ELSE IF match # <<>> THEN PyInt(DigitsToInt(match))
             ELSE PyNone

(***************************************************************************)
(* SpecDays: clean_days_value on the missing value, on every text of at    *)
(* most MaxDaysLen characters over DaysAlphabet, and on the longer texts   *)
(* a SEP b and a SEP b SEP' c, where a, b, c are numbers of at most        *)
(* MaxDigits digits and SEP, SEP' are range separators, bare or spaced.    *)
(***************************************************************************)

MaxDaysLen == 5
MaxDigits == 2

DaysAlphabet == {"1", "2", " ", "t", "o", "-", EnDash, "~"}

\* The four range notations of range_patterns: "<a> to <b>", "<a>-<b>",
\* "<a>[en-dash]<b>" and "<a>~<b>".
RangeForms == << <<" ", "t", "o", " ">>, <<"-">>, <<EnDash>>, <<"~">> >>

Numerals == UNION {[1..k -> {"1", "2"}] : k \in 1..MaxDigits}

Separators ==
    {RangeForms[f] : f \in 1..Len(RangeForms)}
        \cup {range_patterns[p] : p \in 1..Len(range_patterns)}

DaysInputs ==
    UNION {[1..k -> DaysAlphabet] : k \in 0..MaxDaysLen}
        \cup {a \o f \o b : a \in Numerals, f \in Separators, b \in Numerals}
        \cup {a \o f \o b \o g \o c :
                 a \in Numerals, f \in Separators, b \in Numerals,
                 g \in Separators, c \in Numerals}
        \cup {NA}

InitDays ==
    /\ days_value \in DaysInputs
    /\ days_result = NotCalled
    /\ ParseIdle /\ ClassifyIdle /\ SchemaIdle /\ WeekIdle /\ RunIdle

CleanDays ==
    /\ days_result = NotCalled
    /\ days_result' = clean_days_value(days_value)
    /\ UNCHANGED <<days_value, parseVars, classifyVars, schemaVars, weekVars, runVars>>

NextDays == CleanDays

SpecDays == InitDays /\ [][NextDays]_vars

\* The range patterns that match the text s somewhere.
MatchingPatterns(s) ==
    {p \in 1..Len(range_patterns) :
        \E i \in 1..Len(s) : RangeMatchAt(s, range_patterns[p], i) # <<>>}

\* C7 (range normalization).  Once clean_days_value has returned: (1) when
\* its argument is a, one of the four range notations, b, with a and b
\* non-empty digit strings and a <= b, the result is the float (a+b)/2,
\* half-integers included; (2) when one or more range patterns match the
\* text, the result is the mean of the two groups of the first of them in
\* the order to, hyphen, en-dash, tilde.
C7_RangeNormalization ==
    days_result # NotCalled =>
        /\ \A i \in 1..Len(days_value), f \in 1..Len(RangeForms) :
              LET form == RangeForms[f]
                  a == SubSeq(days_value, 1, i)
                  b == SubSeq(days_value, i + Len(form) + 1, Len(days_value))
              IN  ( /\ OccursAt(days_value, form, i + 1)
                    /\ b # <<>>
                    /\ AllDigits(a) /\ AllDigits(b)
                    /\ DigitsToInt(a) <= DigitsToInt(b) )
                  => days_result = PyFloatHalf(DigitsToInt(a) + DigitsToInt(b))
        /\ LET days_str == Lower(Strip(days_value))
               hit == MatchingPatterns(days_str)
           IN  hit # {} =>
                 LET first == CHOOSE p \in hit : \A q \in hit : p <= q
                     g == RangeSearch(days_str, range_patterns[first])
                 IN  days_result = PyFloatHalf(DigitsToInt(g[1]) + DigitsToInt(g[2]))

\* C7 witness: "1 to 2" has been cleaned to 1.5.
C7_Witness ==
    /\ days_value = <<"1", " ", "t", "o", " ", "2">>
    /\ days_result = PyFloatHalf(3)

\* Several patterns match "1-2to1" ("1-2" and "2to1"): the result is that of
\* the "to" pattern, 1.5.
C7_WitnessPriority ==
    /\ days_value = <<"1", "-", "2", "t", "o", "1">>
    /\ MatchingPatterns(days_value) = {1, 2}
    /\ days_result = PyFloatHalf(3)

(***************************************************************************)
(* parse_week_input                                                        *)
(***************************************************************************)

\* int() raising ValueError.  The texts of the model carry no sign, so every
\* parsed integer is >= 0 and -1 is free to stand for the exception.
ValueError == -1

\* int(text): surrounding whitespace is ignored, the rest must be digits.
PyIntOf(text) ==
    LET t == Strip(text)
    IN  IF t # <<>> /\ AllDigits(t) THEN DigitsToInt(t) ELSE ValueError

\* str.split(c): the pieces of s between the occurrences of the character c.
RECURSIVE Split(_, _)
Split(s, c) ==
    LET at == {i \in 1..Len(s) : s[i] = c}
    IN  IF at = {} THEN <<s>>
        ELSE LET i == CHOOSE k \in at : \A j \in at : k <= j
             IN  <<SubSeq(s, 1, i - 1)>> \o Split(SubSeq(s, i + 1, Len(s)), c)

\* A slip: range(start_week, end_week), which leaves the last week out.
WeekRangeExclusive(start_week, end_week) ==
    [i \in 1..(end_week - start_week) |-> start_week + i - 1]

\* list(range(start_week, end_week + 1)) of line 242.
WeekRange(start_week, end_week) ==
    [i \in 1..(end_week + 1 - start_week) |-> start_week + i - 1]

\* What one part adds to week_numbers (lines 236-252): the weeks of a range,
\* one week, or nothing when a ValueError is caught.
WeeksOfPart(part) ==
    IF Contains(part, <<"-">>)
    THEN LET pieces == Split(part, "-")
         IN  IF Len(pieces) # 2 THEN <<>>           \* unpacking raises ValueError
             ELSE LET start_week == PyIntOf(pieces[1])
                      end_week == PyIntOf(pieces[2])
                  IN  IF start_week = ValueError \/ end_week = ValueError
                      THEN <<>>
                      ELSE WeekRange(start_week, end_week)
    ELSE IF PyIntOf(part) = ValueError THEN <<>> ELSE <<PyIntOf(part)>>

\* The loop of lines 235-252 over parts[p..].
RECURSIVE CollectWeeks(_, _)
CollectWeeks(parts, p) ==
    IF p > Len(parts) THEN <<>>
    ELSE WeeksOfPart(parts[p]) \o CollectWeeks(parts, p + 1)

\* sorted(list(set(xs))) of a list of integers.
SortedSet(xs) ==
    LET S == {xs[i] : i \in 1..Len(xs)}
    IN  IF S = {} THEN <<>>
        ELSE LET lo == CHOOSE x \in S : \A y \in S : x <= y
                 hi == CHOOSE x \in S : \A y \in S : y <= x
                 InS(x) == x \in S
             IN  SelectSeq([i \in 1..(hi - lo + 1) |-> lo + i - 1], InS)

parse_week_input(text) ==
    LET parts == [p \in 1..Len(Split(text, ",")) |-> Strip(Split(text, ",")[p])]
    IN  SortedSet(CollectWeeks(parts, 1))

(***************************************************************************)
(* SpecParse: parse_week_input on every text of at most MaxInputLen        *)
(* characters over ParseAlphabet, and on the examples of the description.  *)
(***************************************************************************)

MaxInputLen == 5

ParseAlphabet == {"1", "2", ",", "-", " ", "x"}

Example26 == <<"2", "6", ",", "2", "8", "-", "3", "0">>     \* "26,28-30"
Example55 == <<"5", "-", "5">>                               \* "5-5"
ExampleX7 == <<"x", ",", "7">>                               \* "x,7"

ParseInputs ==
    UNION {[1..k -> ParseAlphabet] : k \in 0..MaxInputLen}
        \cup {Example26, Example55, ExampleX7}

\* week_numbers before parse_week_input has returned.
Unparsed == <<ValueError>>

InitParse ==
    /\ week_input \in ParseInputs
    /\ week_numbers = Unparsed
    /\ DaysIdle /\ ClassifyIdle /\ SchemaIdle /\ WeekIdle /\ RunIdle

ParseWeeks ==
    /\ week_numbers = Unparsed
    /\ week_numbers' = parse_week_input(week_input)
    /\ UNCHANGED <<week_input, daysVars, classifyVars, schemaVars, weekVars, runVars>>

NextParse == ParseWeeks

SpecParse == InitParse /\ [][NextParse]_vars

\* The comma-separated tokens of a text: the stretches between two commas
\* (or an end of the text) that hold no comma.
Tokens(text) ==
    {SubSeq(text, i, j) : <<i, j>> \in
        {ij \in (1..(Len(text) + 1)) \X (0..Len(text)) :
            /\ ij[1] <= ij[2] + 1
            /\ ij[1] = 1 \/ text[ij[1] - 1] = ","
            /\ ij[2] = Len(text) \/ text[ij[2] + 1] = ","
            /\ \A k \in ij[1]..ij[2] : text[k] # ","}}

IsNumeral(t) == Strip(t) # <<>> /\ AllDigits(Strip(t))

\* The integers a token names: n for the integer token n, A..B for the
\* range token A-B, none for any other token.
NamedBy(token) ==
    IF IsNumeral(token) THEN {DigitsToInt(Strip(token))}
    ELSE UNION {
        LET A == SubSeq(token, 1, k - 1)
            B == SubSeq(token, k + 1, Len(token))
        IN  IF IsNumeral(A) /\ IsNumeral(B)
            THEN DigitsToInt(Strip(A))..DigitsToInt(Strip(B)) ELSE {}
        : k \in {h \in 1..Len(token) : token[h] = "-"}}

\* C5 (period-specification parsing).  Once parse_week_input has returned,
\* week_numbers is strictly ascending (so duplicate-free) and holds exactly
\* the integers named by the valid tokens of the input: invalid tokens add
\* nothing and do not stop the tokens after them.  "26,28-30" gives
\* 26,28,29,30; "5-5" gives 5; "x,7" gives 7.
C5_ParseWeeks ==
    week_numbers # Unparsed =>
        /\ \A i \in 1..(Len(week_numbers) - 1) : week_numbers[i] < week_numbers[i + 1]
        /\ {week_numbers[i] : i \in 1..Len(week_numbers)}
              = UNION {NamedBy(token) : token \in Tokens(week_input)}
        /\ week_input = Example26 => week_numbers = <<26, 28, 29, 30>>
        /\ week_input = Example55 => week_numbers = <<5>>
        /\ week_input = ExampleX7 => week_numbers = <<7>>

\* C5 witness: "x,7" has been parsed to the single week 7, the invalid
\* token "x" skipped.
C5_Witness == week_input = ExampleX7 /\ week_numbers = <<7>>

\* "26,28-30" has been parsed to 26, 28, 29, 30.
C5_WitnessRange == week_input = Example26 /\ week_numbers = <<26, 28, 29, 30>>


(***************************************************************************)
(* is_excel_file, get_file_type and the file filter of process_week        *)
(***************************************************************************)

\* "Raw Data.xlsx"
RawDataXlsx ==
    <<"R", "a", "w", " ", "D", "a", "t", "a", ".", "x", "l", "s", "x">>
\* "DCC Not Sent.xlsx"
DccNotSentXlsx ==
    <<"D", "C", "C", " ", "N", "o", "t", " ", "S", "e", "n", "t", ".", "x",
      "l", "s", "x">>

\* self.ignore_files of line 34.
ignore_files == {RawDataXlsx, DccNotSentXlsx}

\* ".xlsx"
ExtXlsx == <<".", "x", "l", "s", "x">>
\* ".xls"
ExtXls == <<".", "x", "l", "s">>
\* ".xlsm"
ExtXlsm == <<".", "x", "l", "s", "m">>
\* ".xlsb"
ExtXlsb == <<".", "x", "l", "s", "b">>
\* ".xltx"
ExtXltx == <<".", "x", "l", "t", "x">>
\* ".xltm"
ExtXltm == <<".", "x", "l", "t", "m">>
\* ".csv"
ExtCsv == <<".", "c", "s", "v">>

\* excel_extensions of line 75.
excel_extensions == {ExtXlsx, ExtXls, ExtXlsm, ExtXlsb, ExtXltx, ExtXltm, ExtCsv}

is_excel_file(filename) ==
    \E ext \in excel_extensions : EndsWith(Lower(filename), ext)

\* "ls template"
KwLsTemplate == <<"l", "s", " ", "t", "e", "m", "p", "l", "a", "t", "e">>
\* "ls templet"
KwLsTemplet == <<"l", "s", " ", "t", "e", "m", "p", "l", "e", "t">>
\* "export_empties_longstandings"
KwExportEmptiesUnderscore ==
    <<"e", "x", "p", "o", "r", "t", "_", "e", "m", "p", "t", "i", "e", "s",
      "_", "l", "o", "n", "g", "s", "t", "a", "n", "d", "i", "n", "g", "s">>
\* "empties longstanding"
KwEmptiesLongstanding ==
    <<"e", "m", "p", "t", "i", "e", "s", " ", "l", "o", "n", "g", "s", "t",
      "a", "n", "d", "i", "n", "g">>
\* "export_longstandings"
KwExportLongstandingsUnderscore ==
    <<"e", "x", "p", "o", "r", "t", "_", "l", "o", "n", "g", "s", "t", "a",
      "n", "d", "i", "n", "g", "s">>
\* "export longstanding"
KwExportLongstanding ==
    <<"e", "x", "p", "o", "r", "t", " ", "l", "o", "n", "g", "s", "t", "a",
      "n", "d", "i", "n", "g">>

\* The layout tags get_file_type returns; NoType is Python's None.
LS_Template == "LS_Template"
Export_Empties == "Export_Empties"
Export_Longstandings == "Export_Longstandings"
NoType == "None"

\* A slip: the full-export test placed before the empties-export test.
get_file_type_swapped(filename) ==
    LET filename_lower == Lower(filename)
    IN  IF Contains(filename_lower, KwLsTemplate)
           \/ Contains(filename_lower, KwLsTemplet)
        THEN LS_Template
        ELSE IF Contains(filename_lower, KwExportLongstandingsUnderscore)
                \/ Contains(filename_lower, KwExportLongstanding)
        THEN Export_Longstandings
        ELSE IF Contains(filename_lower, KwExportEmptiesUnderscore)
                \/ Contains(filename_lower, KwEmptiesLongstanding)
        THEN Export_Empties
        ELSE NoType

get_file_type(filename) ==
    LET filename_lower == Lower(filename)
    IN  IF Contains(filename_lower, KwLsTemplate)
           \/ Contains(filename_lower, KwLsTemplet)
        THEN LS_Template
        ELSE IF Contains(filename_lower, KwExportEmptiesUnderscore)
                \/ Contains(filename_lower, KwEmptiesLongstanding)
        THEN Export_Empties
        ELSE IF Contains(filename_lower, KwExportLongstandingsUnderscore)
                \/ Contains(filename_lower, KwExportLongstanding)
        THEN Export_Longstandings
        ELSE NoType

\* One turn of the loop of lines 208-218 on the file name f: whether
\* get_file_type is called, what it returns, and whether process_file is
\* called.
WalkFile(f) ==
    IF f \in ignore_files \/ ~is_excel_file(f)
    THEN [classified |-> FALSE, file_type |-> NoType, processed |-> FALSE]
    ELSE [classified |-> TRUE,
          file_type  |-> get_file_type(f),
          processed  |-> get_file_type(f) # NoType]



(***************************************************************************)
(* SpecClassify: get_file_type, called directly, and the file filter of    *)
(* process_week, on file names made of at most MaxNameParts fragments and  *)
(* a suffix.                                                               *)
(***************************************************************************)

MaxNameParts == 2

\* "LS Template"
FrLsTemplate == <<"L", "S", " ", "T", "e", "m", "p", "l", "a", "t", "e">>
\* "ls templet"
FrLsTemplet == <<"l", "s", " ", "t", "e", "m", "p", "l", "e", "t">>
\* "Export_Empties_Longstandings"
FrExportEmpties ==
    <<"E", "x", "p", "o", "r", "t", "_", "E", "m", "p", "t", "i", "e", "s",
      "_", "L", "o", "n", "g", "s", "t", "a", "n", "d", "i", "n", "g", "s">>
\* "Empties Longstanding"
FrEmptiesLongstanding ==
    <<"E", "m", "p", "t", "i", "e", "s", " ", "L", "o", "n", "g", "s", "t",
      "a", "n", "d", "i", "n", "g">>
\* "EXPORT_LONGSTANDINGS"
FrExportLongstandings ==
    <<"E", "X", "P", "O", "R", "T", "_", "L", "O", "N", "G", "S", "T", "A",
      "N", "D", "I", "N", "G", "S">>
\* "Export Longstanding"
FrExportLongstanding ==
    <<"E", "x", "p", "o", "r", "t", " ", "L", "o", "n", "g", "s", "t", "a",
      "n", "d", "i", "n", "g">>
\* "Raw Data"
FrRawData == <<"R", "a", "w", " ", "D", "a", "t", "a">>
\* "DCC Not Sent"
FrDccNotSent == <<"D", "C", "C", " ", "N", "o", "t", " ", "S", "e", "n", "t">>
\* "Report"
FrReport == <<"R", "e", "p", "o", "r", "t">>
\* "Export"
FrExport == <<"E", "x", "p", "o", "r", "t">>
\* " Longstanding"
FrLongstandingTail ==
    <<" ", "L", "o", "n", "g", "s", "t", "a", "n", "d", "i", "n", "g">>

NameFragments ==
    {FrLsTemplate, FrLsTemplet, FrExportEmpties, FrEmptiesLongstanding, FrExportLongstandings,
     FrExportLongstanding, FrRawData, FrDccNotSent, FrReport, FrExport, FrLongstandingTail}

\* ".xlsx"
SufXlsx == <<".", "x", "l", "s", "x">>
\* ".XLSX"
SufXlsxUpper == <<".", "X", "L", "S", "X">>
\* ".xls"
SufXls == <<".", "x", "l", "s">>
\* ".csv"
SufCsv == <<".", "c", "s", "v">>
\* ".xlsm"
SufXlsm == <<".", "x", "l", "s", "m">>
\* ".txt"
SufTxt == <<".", "t", "x", "t">>
\* ".pdf"
SufPdf == <<".", "p", "d", "f">>
\* ".xlsx.bak"
SufBak == <<".", "x", "l", "s", "x", ".", "b", "a", "k">>

NameSuffixes ==
    {SufXlsx, SufXlsxUpper, SufXls, SufCsv, SufXlsm, SufTxt, SufPdf, SufBak, <<>>}

RECURSIVE Stems(_)
Stems(n) ==
    IF n = 0 THEN {<<>>}
    ELSE Stems(n - 1) \cup {st \o fr : st \in Stems(n - 1), fr \in NameFragments}

FileNames == {st \o suf : st \in Stems(MaxNameParts), suf \in NameSuffixes}

NotWalked == [classified |-> FALSE, file_type |-> "NotCalled", processed |-> FALSE]

InitClassify ==
    /\ file \in FileNames
    /\ first_type = "NotCalled"
    /\ file_type = "NotCalled"
    /\ walk = NotWalked
    /\ DaysIdle /\ ParseIdle /\ SchemaIdle /\ WeekIdle /\ RunIdle

\* A call of get_file_type(file); it may be called again.
Classify ==
    /\ file_type' = get_file_type(file)
    /\ first_type' = IF first_type = "NotCalled" THEN file_type' ELSE first_type
    /\ UNCHANGED <<file, walk, daysVars, parseVars, schemaVars, weekVars, runVars>>

\* The turn of process_week's loop on `file`.
Walk ==
    /\ walk = NotWalked
    /\ walk' = WalkFile(file)
    /\ UNCHANGED <<file, first_type, file_type, daysVars, parseVars, schemaVars, weekVars, runVars>>

NextClassify == Classify \/ Walk

SpecClassify == InitClassify /\ [][NextClassify]_vars

\* The keyword groups in the order of priority, and the tag of each.
KeywordGroups ==
    << {KwLsTemplate, KwLsTemplet},
       {KwExportEmptiesUnderscore, KwEmptiesLongstanding},
       {KwExportLongstandingsUnderscore, KwExportLongstanding} >>
GroupTags == <<LS_Template, Export_Empties, Export_Longstandings>>

\* The groups one of whose keywords the lower-cased name contains.
GroupsIn(name) ==
    {g \in 1..Len(KeywordGroups) :
        \E kw \in KeywordGroups[g] : Contains(Lower(name), kw)}

\* The extension of a name: its text from the last "." on, lower-cased.
Extension(name) ==
    LET dots == {i \in 1..Len(name) : name[i] = "."}
    IN  IF dots = {} THEN <<>>
        ELSE Lower(SubSeq(name, CHOOSE i \in dots : \A j \in dots : j <= i,
                          Len(name)))

\* C6 (file classification).  get_file_type returns one of the three tags
\* or None, the same value on every call for a name; the value is the tag
\* of the first keyword group, in the order template, empties-export,
\* full-export, that the lower-cased name matches, None when it matches no
\* group; and the loop of process_week neither classifies nor processes a
\* file whose name is on the ignore-list or whose extension is not allowed.
C6_Classification ==
    /\ file_type # "NotCalled" =>
          /\ file_type \in {LS_Template, Export_Empties, Export_Longstandings, NoType}
          /\ file_type = first_type
          /\ LET G == GroupsIn(file)
             IN  file_type = IF G = {} THEN NoType
                             ELSE GroupTags[CHOOSE g \in G : \A h \in G : g <= h]
    /\ walk # NotWalked =>
          /\ (file \in ignore_files \/ Extension(file) \notin excel_extensions)
                => ~walk.classified /\ ~walk.processed
          /\ walk.processed => walk.classified /\ walk.file_type # NoType

\* C6 witness: a name that holds keywords of the empties-export group and of
\* the full-export group has been classified as Export_Empties.
C6_Witness ==
    /\ file = FrExportLongstanding \o FrExportEmpties \o SufXlsx
    /\ GroupsIn(file) = {2, 3}
    /\ file_type = Export_Empties

\* The loop has skipped "Raw Data.xlsx", which is on the ignore-list, and a
\* template whose extension is not allowed, without classifying them.
C6_WitnessIgnored ==
    /\ file = RawDataXlsx
    /\ walk # NotWalked /\ ~walk.classified /\ ~walk.processed

C6_WitnessExtension ==
    /\ file = FrLsTemplate \o SufTxt
    /\ walk # NotWalked /\ ~walk.classified /\ ~walk.processed


(***************************************************************************)
(* Tables (pandas DataFrame): a sequence of column labels, which may       *)
(* repeat, and rows of cells aligned with it.                              *)
(***************************************************************************)

\* self.output_headers of lines 16-31.
output_headers ==
    <<"CURRENT_YEARWEEK", "ACTLOC_COUNTRY", "CONT_TYPE", "DAYS", "MOVE",
      "SHIPMENT_NUMBER", "Week", "Source", "Days since Gated Out",
      "ACTLOC Country", "Container Type", "Process", "Sourcetype",
      "Email Type">>

\* The empty string "" that fills a missing column (line 166).
EmptyStr == PyStr(<<>>)

\* str(c).strip() of a header cell.  A header cell is a sequence of pieces:
\* one text and the blanks around it.
StripHeader(h) == IF Strip(h) = <<>> THEN "" ELSE Strip(h)[1]

\* df.columns = [str(c).strip() for c in df.columns] of line 95.
StripColumns(df) ==
    [columns |-> [i \in 1..Len(df.columns) |-> StripHeader(df.columns[i])],
     rows    |-> df.rows]

\* The positions of the columns labelled name, ascending.
PositionsOf(df, name) ==
    LET Is(i) == df.columns[i] = name
    IN  SelectSeq([i \in 1..Len(df.columns) |-> i], Is)

\* name in df.columns
HasColumn(df, name) == PositionsOf(df, name) # <<>>

\* df.empty: no row or no column.
IsEmpty(df) == Len(df.rows) = 0 \/ Len(df.columns) = 0

\* df[name], row by row (the first column of that label).
ColumnOf(df, name) ==
    [r \in 1..Len(df.rows) |-> df.rows[r][PositionsOf(df, name)[1]]]

\* df[name] = vals: every column labelled name takes the values, or a new
\* column is appended.
SetColumn(df, name, vals) ==
    IF HasColumn(df, name)
    THEN [columns |-> df.columns,
          rows    |-> [r \in 1..Len(df.rows) |->
                         [i \in 1..Len(df.columns) |->
                            IF df.columns[i] = name THEN vals[r]
                            ELSE df.rows[r][i]]]]
    ELSE [columns |-> Append(df.columns, name),
          rows    |-> [r \in 1..Len(df.rows) |-> Append(df.rows[r], vals[r])]]

\* df[name] = v for a scalar v.
SetScalar(df, name, v) == SetColumn(df, name, [r \in 1..Len(df.rows) |-> v])

\* The positions df[headers] selects: for each header in turn, every column
\* of that label.
RECURSIVE SelectPositions(_, _, _)
SelectPositions(df, headers, h) ==
    IF h > Len(headers) THEN <<>>
    ELSE PositionsOf(df, headers[h]) \o SelectPositions(df, headers, h + 1)

\* df[headers] of line 169.
SelectColumns(df, headers) ==
    LET ps == SelectPositions(df, headers, 1)
    IN  [columns |-> [k \in 1..Len(ps) |-> df.columns[ps[k]]],
         rows    |-> [r \in 1..Len(df.rows) |->
                        [k \in 1..Len(ps) |-> df.rows[r][ps[k]]]]]

(***************************************************************************)
(* map_columns_to_output and process_file                                  *)
(***************************************************************************)

\* column_mappings of lines 101-122, as <<old_col, new_col>> in dict order.
column_mappings(ftype) ==
    IF ftype = LS_Template
    THEN << <<"Booking number", "SHIPMENT_NUMBER">>,
            <<"Days since Gated Out", "DAYS">>,
            <<"ACTLOC Country", "ACTLOC_COUNTRY">>,
            <<"Container Type", "CONT_TYPE">>,
            <<"Process", "MOVE">> >>
    ELSE IF ftype \in {Export_Empties, Export_Longstandings}
    THEN << <<"Last move", "MOVE">>,
            <<"ACTLOC_COUNTRY", "ACTLOC_COUNTRY">>,
            <<"CONT_TYPE", "CONT_TYPE">>,
            <<"DAYS", "DAYS">>,
            <<"SHIPMENT_NUMBER", "SHIPMENT_NUMBER">>,
            <<"CURRENT_YEARWEEK", "CURRENT_YEARWEEK">> >>
    ELSE <<>>

\* mapped_df[new_col] = mapped_df[old_col] of line 127.  With one column
\* labelled old_col its values go to every column labelled new_col (or to a
\* new column).  With several, mapped_df[old_col] is a table: pandas copies
\* it column by column when as many columns are labelled new_col, and
\* raises ValueError otherwise.
MapColumn(df, old_col, new_col) ==
    LET from == PositionsOf(df, old_col)
        to == PositionsOf(df, new_col)
    IN  IF Len(from) = 1 THEN SetColumn(df, new_col, ColumnOf(df, old_col))
        ELSE IF Len(to) # Len(from) THEN NoTable
        ELSE [columns |-> df.columns,
              rows    |-> [r \in 1..Len(df.rows) |->
                             [i \in 1..Len(df.columns) |->
                                IF df.columns[i] = new_col
                                THEN df.rows[r][from[CHOOSE j \in 1..Len(to) : to[j] = i]]
                                ELSE df.rows[r][i]]]]

\* The loop of lines 125-127 from mapping k on; NoTable when a turn raised.
RECURSIVE ApplyMappings(_, _, _)
ApplyMappings(df, maps, k) ==
    IF df = NoTable \/ k > Len(maps) THEN df
    ELSE IF HasColumn(df, maps[k][1])
         THEN ApplyMappings(MapColumn(df, maps[k][1], maps[k][2]), maps, k + 1)
         ELSE ApplyMappings(df, maps, k + 1)

map_columns_to_output(df, ftype) ==
    ApplyMappings(StripColumns(df), column_mappings(ftype), 1)

\* clean_days_value on a cell: a text or a missing value.
CleanCell(c) == clean_days_value(IF c = PyNone THEN NA ELSE c.text)

\* Lines 153-156.  With several columns labelled DAYS, df['DAYS'] is a table
\* and apply() hands clean_days_value whole columns; the assignment of what
\* comes back raises ValueError.
CleanDaysColumn(df) ==
    IF ~HasColumn(df, "DAYS") THEN df
    ELSE IF Len(PositionsOf(df, "DAYS")) > 1 THEN NoTable
    ELSE SetColumn(df, "DAYS",
                   [r \in 1..Len(df.rows) |-> CleanCell(ColumnOf(df, "DAYS")[r])])

\* The loop of lines 164-166 from header h on.
RECURSIVE FillMissing(_, _)
FillMissing(df, h) ==
    IF h > Len(output_headers) THEN df
    ELSE IF HasColumn(df, output_headers[h]) THEN FillMissing(df, h + 1)
         ELSE FillMissing(SetScalar(df, output_headers[h], EmptyStr), h + 1)

\* Lines 158-169: the metadata columns, the missing columns, the selection.
Finish(df, week_num, filename, ftype) ==
    LET tagged == SetScalar(SetScalar(SetScalar(df,
                      "Week", PyInt(week_num)),
                      "Source", PyStr(filename)),
                      "Sourcetype", PyStr(<<ftype>>))
    IN  SelectColumns(FillMissing(tagged, 1), output_headers)

\* process_file, given what reading the file gave (NoTable: the read
\* raised).  It returns None (NoTable) for a failed read, for an empty table
\* and when a statement raises (line 173), else the extracted table.
process_file(read, week_num, filename, ftype) ==
    IF read = NoTable THEN NoTable
    ELSE IF IsEmpty(read) THEN NoTable
    ELSE LET mapped == map_columns_to_output(read, ftype)
             cleaned == IF mapped = NoTable THEN NoTable ELSE CleanDaysColumn(mapped)
         IN  IF cleaned = NoTable THEN NoTable
             ELSE Finish(cleaned, week_num, filename, ftype)

(***************************************************************************)
(* SpecSchema: process_file on tables whose header row is any selection of *)
(* SchemaHeaders, with 0..MaxSchemaRows rows, for every layout tag and an  *)
(* unknown one.                                                            *)
(***************************************************************************)

MaxSchemaRows == 1

\* Header cells as read: the source labels of both layouts, canonical
\* labels, a label outside the canonical set, and labels with a blank
\* before or after them.
SchemaHeaders ==
    << <<"Booking number">>, <<"Days since Gated Out">>, <<"ACTLOC Country">>,
       <<"Process">>, <<"Last move">>, <<"DAYS">>, <<"SHIPMENT_NUMBER">>,
       <<"Week">>, <<"Email Type">>, <<"Remarks">>,
       <<"Email Type", " ">>, <<" ", "DAYS">>, <<"Week", " ">> >>

\* The cell of row r under header cell h: a days text under the two days
\* labels, else a text that names the header cell and the row.
SchemaCell(h, r) ==
    IF StripHeader(h) \in {"DAYS", "Days since Gated Out"}
    THEN PyStr(<<"2", Digits[r + 1], " ", "T", "o", " ", "3", "5", " ", "d">>)
    ELSE PyStr(h \o <<Digits[r + 1]>>)

SchemaTables ==
    {LET Chosen(i) == i \in chosen
         cols == SelectSeq([i \in 1..Len(SchemaHeaders) |-> i], Chosen)
     IN  [columns |-> [k \in 1..Len(cols) |-> SchemaHeaders[cols[k]]],
          rows    |-> [r \in 1..n |->
                         [k \in 1..Len(cols) |-> SchemaCell(SchemaHeaders[cols[k]], r)]]]
     : chosen \in SUBSET (1..Len(SchemaHeaders)), n \in 0..MaxSchemaRows}

SchemaWeek == 26
SchemaFile == FrLsTemplate \o SufXlsx
SchemaTypes == {LS_Template, Export_Empties, Export_Longstandings, "Unknown"}

InitSchema ==
    /\ src_df \in SchemaTables \cup {NoTable}
    /\ src_type \in SchemaTypes
    /\ out_df = NoCall
    /\ DaysIdle /\ ParseIdle /\ ClassifyIdle /\ WeekIdle /\ RunIdle

\* process_file(file_path, week_num, file_type)
ProcessFile ==
    /\ out_df = NoCall
    /\ out_df' = process_file(src_df, SchemaWeek, SchemaFile, src_type)
    /\ UNCHANGED <<src_df, src_type, daysVars, parseVars, classifyVars, weekVars, runVars>>

NextSchema == ProcessFile

SpecSchema == InitSchema /\ [][NextSchema]_vars

\* The canonical columns that the source, once mapped, does not hold: no
\* source label strips to them and none is mapped to them (the three
\* metadata columns are always set).
AbsentFromSource(df, ftype) ==
    {c \in {output_headers[h] : h \in 1..Len(output_headers)} :
        /\ c \notin {"Week", "Source", "Sourcetype"}
        /\ \A i \in 1..Len(df.columns) : StripHeader(df.columns[i]) # c
        /\ \A k \in 1..Len(column_mappings(ftype)) :
              column_mappings(ftype)[k][2] = c
                  => \A i \in 1..Len(df.columns) :
                        StripHeader(df.columns[i]) # column_mappings(ftype)[k][1]}

\* The returned table has exactly the canonical columns, in order, and the
\* empty string in every column the mapped source lacks.
IsCanonical(out, src, ftype) ==
    /\ out.columns = output_headers
    /\ \A r \in 1..Len(out.rows) :
         /\ Len(out.rows[r]) = Len(output_headers)
         /\ \A h \in 1..Len(output_headers) :
              output_headers[h] \in AbsentFromSource(src, ftype)
                  => out.rows[r][h] = EmptyStr

\* C4 (canonical schema invariant).  Every table process_file returns, for
\* any layout tag and any source columns, has exactly the 14 columns of
\* output_headers in that order, with "" in the canonical columns absent
\* from the mapped source and no other source column.
C4_CanonicalSchema ==
    out_df \notin {NoCall, NoTable} => IsCanonical(out_df, src_df, src_type)

\* No two header cells of the source strip to the same label.
DistinctLabels(df) ==
    \A i, j \in 1..Len(df.columns) :
        StripHeader(df.columns[i]) = StripHeader(df.columns[j]) => i = j

\* The canonical schema holds of every table returned for a source whose
\* header cells strip to distinct labels.
C4_CanonicalWhenDistinct ==
    (out_df \notin {NoCall, NoTable} /\ DistinctLabels(src_df))
        => IsCanonical(out_df, src_df, src_type)

\* A table has been returned for a source with distinct labels, a mapped
\* column, an absent canonical column and a column outside the schema.
C4_WitnessDistinct ==
    /\ out_df \notin {NoCall, NoTable}
    /\ DistinctLabels(src_df)
    /\ src_type = LS_Template
    /\ HasColumn(src_df, <<"Booking number">>)
    /\ HasColumn(src_df, <<"Remarks">>)
    /\ ~HasColumn(src_df, <<"ACTLOC Country">>)

(***************************************************************************)
(* The master file and create_master_file.  A row is a sequence of cells   *)
(* aligned with output_headers; the file is absent or holds rows of        *)
(* fields.  A number cell of the file stands for its decimal text.  The    *)
(* tables merged here are the ones process_file returns for sources with   *)
(* distinct labels, so every table has the 14 canonical columns; the key   *)
(* columns ACTLOC_COUNTRY and SHIPMENT_NUMBER hold texts that are not      *)
(* numerals, blanks and missing values.                                    *)
(***************************************************************************)

NoFile == [exists |-> FALSE, rows |-> <<>>]
FileOf(rows) == [exists |-> TRUE, rows |-> rows]

\* The position of a canonical column in a row.
Col(name) == CHOOSE h \in 1..Len(output_headers) : output_headers[h] = name

\* str(n) of a natural number.
RECURSIVE IntToText(_)
IntToText(n) ==
    IF n < 10 THEN <<Digits[n + 1]>>
    ELSE IntToText(n \div 10) \o <<Digits[(n % 10) + 1]>>

\* The fields pd.read_csv takes for a missing value (its default na_values),
\* those without a digit; the empty field is one of them.
na_values ==
    { <<>>, <<"N", "A">>, <<"N", "/", "A">>, <<"n", "/", "a">>,
      <<"#", "N", "/", "A">>, <<"#", "N", "A">>, <<"<", "N", "A", ">">>,
      <<"N", "U", "L", "L">>, <<"n", "u", "l", "l">>, <<"N", "a", "N">>,
      <<"n", "a", "n">>, <<"-", "N", "a", "N">>, <<"-", "n", "a", "n">>,
      <<"N", "o", "n", "e">> }

IsNumber(c) == c.type \in {"int", "float"}

\* One field as pd.read_csv parses it on its own.
FromCsvField(c) ==
    IF c.type = "str" /\ c.text \in na_values THEN PyNone ELSE c

\* One column as pd.read_csv reads it (line 277): a column of numbers is a
\* column of floats as soon as it holds a float or a missing value.
FromCsvColumn(cells) ==
    LET parsed == [i \in 1..Len(cells) |-> FromCsvField(cells[i])]
        numeric == \A i \in 1..Len(cells) :
                      parsed[i] = PyNone \/ IsNumber(parsed[i])
        floats == \E i \in 1..Len(cells) :
                      parsed[i] = PyNone \/ parsed[i].type = "float"
    IN  [i \in 1..Len(cells) |->
            IF numeric /\ floats /\ parsed[i].type = "int"
            THEN PyFloatHalf(parsed[i].twice)
            ELSE parsed[i]]

\* pd.read_csv(master_file_path) of line 277, on the rows of the file.
read_csv(rows) ==
    LET cols == [h \in 1..Len(output_headers) |->
                    FromCsvColumn([r \in 1..Len(rows) |-> rows[r][h]])]
    IN  [r \in 1..Len(rows) |-> [h \in 1..Len(output_headers) |-> cols[h][r]]]

\* One cell as to_csv writes it: a missing value is an empty field.
ToCsvField(c) == IF c = PyNone THEN EmptyStr ELSE c

\* master_df.to_csv(...) of line 297, the rows written.
to_csv(rows) ==
    [r \in 1..Len(rows) |-> [h \in 1..Len(rows[r]) |-> ToCsvField(rows[r][h])]]

\* A slip: the Week column is taken for a column of floats, whose strings
\* end in ".0".
WeekAsStrFloat(c) ==
    IF IsNumber(c) THEN IntToText(c.twice \div 2) \o <<".", "0">>
    ELSE IF c = PyNone THEN <<"n", "a", "n">>
    ELSE c.text

\* One cell of existing_df['Week'].astype(str) (line 282).
WeekAsStr(c) ==
    IF c.type = "int" THEN IntToText(c.twice \div 2)
    ELSE IF c.type = "float" THEN IntToText(c.twice \div 2) \o <<".", "0">>
    ELSE IF c = PyNone THEN <<"n", "a", "n">>
    ELSE c.text

\* pd.concat(df_list, ignore_index=True) of line 266: the rows of the
\* tables, one table after the other.
RECURSIVE Concat(_)
Concat(df_list) ==
    IF df_list = <<>> THEN <<>>
    ELSE df_list[1].rows \o Concat(Tail(df_list))

\* A slip: only the rows of the first processed week are removed.
RemoveProcessedFirst(existing, processed_weeks) ==
    LET Kept(row) ==
            WeekAsStr(row[Col("Week")]) # IntToText(processed_weeks[1])
    IN  SelectSeq(existing, Kept)

\* A slip: the rows of the processed weeks are not removed.
RemoveProcessedNone(existing, processed_weeks) == existing

\* Lines 281-282: drop the rows whose Week, as a string, is the string of a
\* processed week.
RemoveProcessed(existing, processed_weeks) ==
    LET processed_weeks_str ==
            {IntToText(processed_weeks[i]) : i \in 1..Len(processed_weeks)}
        Kept(row) == WeekAsStr(row[Col("Week")]) \notin processed_weeks_str
    IN  SelectSeq(existing, Kept)

\* The characters of the key texts in code point order.
CodePoints ==
    <<" ", "#", "-", ".", "/">> \o Digits \o <<"<", ">">> \o UpperLetters
        \o <<"_">> \o LowerLetters
CodePoint(ch) == CHOOSE k \in 1..Len(CodePoints) : CodePoints[k] = ch

\* a < b for two Python strings.
RECURSIVE TextLess(_, _)
TextLess(a, b) ==
    IF b = <<>> THEN FALSE
    ELSE IF a = <<>> THEN TRUE
    ELSE IF a[1] = b[1] THEN TextLess(Tail(a), Tail(b))
    ELSE CodePoint(a[1]) < CodePoint(b[1])

\* The order of sort_values on one key, na_position='last': numbers by
\* value, texts as strings, a missing value after everything else.
CellLess(x, y) ==
    IF x = PyNone THEN FALSE
    ELSE IF y = PyNone THEN TRUE
    ELSE IF IsNumber(x) /\ IsNumber(y) THEN x.twice < y.twice
    ELSE TextLess(x.text, y.text)

CellSame(x, y) == ~CellLess(x, y) /\ ~CellLess(y, x)

\* The keys of line 293.
sort_keys == <<"Week", "ACTLOC_COUNTRY", "SHIPMENT_NUMBER">>

\* Row a sorts before row b from key k on.
RECURSIVE RowLess(_, _, _)
RowLess(a, b, k) ==
    IF k > Len(sort_keys) THEN FALSE
    ELSE LET x == a[Col(sort_keys[k])]
             y == b[Col(sort_keys[k])]
         IN  IF CellLess(x, y) THEN TRUE
             ELSE IF CellLess(y, x) THEN FALSE
             ELSE RowLess(a, b, k + 1)

\* sort_values of lines 292-294: a stable sort, rows of equal keys keep
\* their order.
RECURSIVE sort_values(_)
sort_values(rows) ==
    IF rows = <<>> THEN <<>>
    ELSE LET n == Len(rows)
             done == sort_values(SubSeq(rows, 1, n - 1))
             k == Cardinality({i \in 1..(n - 1) : ~RowLess(rows[n], done[i], 1)})
         IN  SubSeq(done, 1, k) \o <<rows[n]>> \o SubSeq(done, k + 1, n - 1)

\* master_df of lines 266-294: the rows kept from the file, then the new
\* rows, sorted.
master_df(csv, df_list, processed_weeks) ==
    LET current_data_df == Concat(df_list)
    IN  IF csv.exists
        THEN sort_values(RemoveProcessed(read_csv(csv.rows), processed_weeks)
                            \o current_data_df)
        ELSE sort_values(current_data_df)

\* The statements of create_master_file that can raise, in order: reading
\* the existing file (277), filtering, concatenating and sorting (281-294),
\* writing (297) and the report printed afterwards (299-325).
Faults == {"none", "load", "merge", "write", "report"}

\* A slip: the exception of a step is swallowed and the function goes on.
RaisesNever(flt, step) == FALSE

\* The step raises.
Raises(flt, step) == flt = step

\* create_master_file(df_list, output_dir, year, processed_weeks) over the
\* file csv.  written is what a failing write leaves in the file.  It gives
\* the file afterwards, the return value (None or the path) and whether
\* line 297 ran.
MasterPath == "ExportLongstanding_MasterData.csv"
create_master_file(df_list, processed_weeks, csv, flt, written) ==
    IF df_list = <<>>
    THEN [csv |-> csv, ret |-> "None", wrote |-> FALSE]
    ELSE IF csv.exists /\ Raises(flt, "load")
    THEN [csv |-> csv, ret |-> "None", wrote |-> FALSE]
    ELSE IF Raises(flt, "merge")
    THEN [csv |-> csv, ret |-> "None", wrote |-> FALSE]
    ELSE IF Raises(flt, "write")
    THEN [csv |-> written, ret |-> "None", wrote |-> TRUE]
    ELSE LET saved == FileOf(to_csv(master_df(csv, df_list, processed_weeks)))
         IN  IF Raises(flt, "report")
             THEN [csv |-> saved, ret |-> "None", wrote |-> TRUE]
             ELSE [csv |-> saved, ret |-> MasterPath, wrote |-> TRUE]

(***************************************************************************)
(* process_week                                                            *)
(***************************************************************************)

\* possible_week_names of lines 181-188, by position; existing is the set
\* of positions whose folder exists.  Lines 190-195 take the first one;
\* 0 stands for week_path = None.
ConventionCount == 6
WeekPath(existing) ==
    IF existing = {} THEN 0
    ELSE CHOOSE k \in existing : \A j \in existing : k <= j

\* A slip: whatever process_file returned is collected.
KeepTableAny(df) == TRUE

\* df is not None and not df.empty (line 220).
KeepTable(df) == df # NoTable /\ ~IsEmpty(df)

\* One turn of the loop of lines 208-223 on a file of the walk: entry.name
\* is its name and entry.read what reading it gives.
WalkOne(collected, entry, week_num) ==
    LET w == WalkFile(entry.name)
        df == process_file(entry.read, week_num, entry.name, w.file_type)
    IN  IF ~w.processed THEN collected
        ELSE IF KeepTable(df) THEN Append(collected, df)
        ELSE collected

\* The loop of lines 207-223 over the files of the walk from entry k on.
RECURSIVE WalkFrom(_, _, _, _)
WalkFrom(collected, listing, k, week_num) ==
    IF k > Len(listing) THEN collected
    ELSE WalkFrom(WalkOne(collected, listing[k], week_num), listing, k + 1,
                  week_num)

\* process_week(year, week_num), given which folders exist and what the
\* walk of the folder yields.
process_week(week_num, existing, listing) ==
    IF WeekPath(existing) = 0 THEN <<>>
    ELSE WalkFrom(<<>>, listing, 1, week_num)

(***************************************************************************)
(* What a week folder can hold.                                            *)
(***************************************************************************)

Txt(s) == PyStr(s)

\* A sheet of the template layout: two days texts that clean to integers,
\* a missing country.
ContentTemplate ==
    [columns |-> << <<"Booking number">>, <<"Days since Gated Out">>,
                    <<"ACTLOC Country">> >>,
     rows    |-> << <<Txt(<<"S", "2">>), Txt(<<"2", "5", " ", "d", "a", "y", "s">>),
                      Txt(<<"I", "N">>)>>,
                    <<Txt(<<"S", "1">>), Txt(<<"3">>), PyNone>> >>]

\* A sheet of the export layout without a country column: two rows of
\* equal sort keys, a range of days and a days text without a number.
ContentExport ==
    [columns |-> << <<"SHIPMENT_NUMBER">>, <<"DAYS">>, <<"Last move">> >>,
     rows    |-> << <<Txt(<<"S", "1">>), Txt(<<"1", "-", "2">>),
                      Txt(<<"G", "O">>)>>,
                    <<Txt(<<"S", "1">>), Txt(<<"n", "/", "a", " ">>),
                      Txt(<<"G", "I">>)>> >>]

\* A sheet with a header row and no data row.
ContentNoRows ==
    [columns |-> << <<"SHIPMENT_NUMBER">>, <<"DAYS">> >>, rows |-> <<>>]

\* A sheet with two columns that strip to DAYS: cleaning it raises.
ContentTwoDays ==
    [columns |-> << <<"DAYS">>, <<"DAYS", " ">> >>,
     rows    |-> << <<Txt(<<"3">>), Txt(<<"4">>)>> >>]

\* The file names of a walk: a template, an export, a name on the
\* ignore-list and a template with an extension that is not allowed.
WalkNames ==
    {FrLsTemplate \o SufXlsx, FrExportLongstandings \o SufCsv,
     RawDataXlsx, FrLsTemplate \o SufTxt}

\* The longest walk of SpecWeek and the longest walk of a week of Spec.
MaxFiles == 2
MaxRunFiles == 2

\* The walks of up to n files with distinct names, each file one of
\* entries: a name and what reading the file gives.
Listings(entries, n) ==
    UNION {{l \in [1..m -> entries] :
                \A i, j \in 1..m : l[i].name = l[j].name => i = j}
           : m \in 0..n}

(***************************************************************************)
(* SpecWeek: the file loop of process_week, one file per step, over every  *)
(* walk of up to MaxFiles files of WeekEntries.                            *)
(***************************************************************************)

WeekReads ==
    {NoTable, ContentNoRows, ContentTwoDays, ContentTemplate, ContentExport}
WeekEntries == [name : WalkNames, read : WeekReads]
WeekOfWalk == 5

InitWeek ==
    /\ wk_listing \in Listings(WeekEntries, MaxFiles)
    /\ wk_pos = 1
    /\ all_data = <<>>
    /\ DaysIdle /\ ParseIdle /\ ClassifyIdle /\ SchemaIdle /\ RunIdle

\* One turn of the loop of lines 208-223.
WalkNext ==
    /\ wk_pos \in 1..Len(wk_listing)
    /\ all_data' = WalkOne(all_data, wk_listing[wk_pos], WeekOfWalk)
    /\ wk_pos' = wk_pos + 1
    /\ UNCHANGED <<wk_listing, daysVars, parseVars, classifyVars, schemaVars,
                   runVars>>

NextWeek == WalkNext

SpecWeek == InitWeek /\ [][NextWeek]_vars

\* The file at position i of the walk is eligible and process_file returns
\* a table with rows for it.
Eligible(i) ==
    /\ wk_listing[i].name \notin ignore_files
    /\ is_excel_file(wk_listing[i].name)
    /\ get_file_type(wk_listing[i].name) # NoType
TableOf(i) ==
    process_file(wk_listing[i].read, WeekOfWalk, wk_listing[i].name,
                 get_file_type(wk_listing[i].name))
Succeeded(i) == Eligible(i) /\ TableOf(i) # NoTable /\ Len(TableOf(i).rows) > 0

\* C8 (per-file failure isolation).  At every point of the walk, its end
\* included, the tables collected are exactly those of the eligible files
\* that succeeded among the files walked, in walk order: a file whose
\* processing raised or that is empty adds nothing, removes nothing and
\* does not keep the files after it from being processed.
C8_FileIsolation ==
    LET walked == [i \in 1..(wk_pos - 1) |-> i]
        ok == SelectSeq(walked, Succeeded)
    IN  all_data = [k \in 1..Len(ok) |-> TableOf(ok[k])]

\* C8 witness: the walk is over; its first file is an eligible file whose
\* read raised, and the table of the eligible file after it is the week's
\* result.
C8_Witness ==
    /\ Len(wk_listing) = 2 /\ wk_pos = 3
    /\ Eligible(1) /\ wk_listing[1].read = NoTable
    /\ Succeeded(2)
    /\ all_data = <<TableOf(2)>>

\* The walk is over; the cleaning of the first file raised (two DAYS
\* columns) and the second file still gave its table.
C8_WitnessRaise ==
    /\ Len(wk_listing) = 2 /\ wk_pos = 3
    /\ Eligible(1) /\ wk_listing[1].read = ContentTwoDays
    /\ all_data = <<TableOf(2)>>

(***************************************************************************)
(* Spec: main(), run after run over one master file.  A run reads the      *)
(* year and the weeks, processes the weeks one by one (each week folder is *)
(* missing or holds a walk of up to MaxRunFiles files of RunEntries) and   *)
(* calls create_master_file, in which any step may raise.                  *)
(***************************************************************************)

\* What is typed for the weeks and for the year.
RunInputs ==
    { <<"5">>, <<"x", ",", "6">>, <<"5", "-", "6">>, <<"x">> }
YearInputs == { <<"2", "0", "2", "5">>, <<"y">> }

\* The weeks the inputs can name.
WeekIds ==
    UNION {{parse_week_input(t)[i] : i \in 1..Len(parse_week_input(t))}
           : t \in RunInputs}

\* The files of a week folder of a run: a template file and an export file,
\* each unreadable or with a sheet of its layout, and a file on the
\* ignore-list.
RunEntries ==
    {[name |-> FrLsTemplate \o SufXlsx, read |-> r]
        : r \in {NoTable, ContentTemplate}}
    \cup {[name |-> FrExportLongstandings \o SufCsv, read |-> r]
        : r \in {NoTable, ContentExport}}
    \cup {[name |-> RawDataXlsx, read |-> ContentExport]}

\* Which of the folders of possible_week_names exist: none, the first, or
\* the fourth and the sixth.
FolderCases == { {}, {1}, {4, ConventionCount} }

\* What process_week can give for week w over the folder cases and the
\* walks: whether the folder was found, and the tables returned.
WeekOutcomes ==
    [w \in WeekIds |->
        {[found |-> WeekPath(existing) # 0,
          df_list |-> process_week(w, existing, listing)]
         : existing \in FolderCases, listing \in Listings(RunEntries, MaxRunFiles)}]

\* The rows of week w in a file or a table.
RowsOfWeek(rows, w) ==
    LET OfWeek(row) == row[Col("Week")] = PyInt(w)
    IN  SelectSeq(rows, OfWeek)

InitRun ==
    /\ pc = "idle"
    /\ year = 0
    /\ week_input = <<>>
    /\ week_numbers = <<>>
    /\ week_idx = 0
    /\ all_df_list = <<>>
    /\ successful_weeks = <<>>
    /\ failed_weeks = <<>>
    /\ master_file = "NotCalled"
    /\ outcome = "none"
    /\ master_csv = NoFile
    /\ master_at_start = NoFile
    /\ gen = [w \in WeekIds |-> <<>>]
    /\ row_years = [w \in WeekIds |-> {}]
    /\ years_at_start = [w \in WeekIds |-> {}]
    /\ attempted = <<>>
    /\ fault = "none"
    /\ writes = 0
    /\ days_value = NA /\ days_result = NotCalled
    /\ ClassifyIdle /\ SchemaIdle /\ WeekIdle

\* Lines 337-365: the inputs, int(year), parse_week_input and the three
\* empty lists.  The run ends at once on a year that is no number and on an
\* input that names no week.  The inputs typed are drawn from years and
\* from inputs.
StartWith(years, inputs) ==
    /\ pc \in {"idle", "done"}
    /\ \E typed_year \in years, typed_weeks \in inputs :
          LET y == PyIntOf(Strip(typed_year))
              weeks == IF y = ValueError THEN <<>>
                       ELSE parse_week_input(Strip(typed_weeks))
          IN  /\ year' = y
              /\ week_input' = Strip(typed_weeks)
              /\ week_numbers' = weeks
              /\ pc' = IF weeks = <<>> THEN "done" ELSE "weeks"
              /\ outcome' = IF y = ValueError THEN "bad_year"
                            ELSE IF weeks = <<>> THEN "no_weeks"
                            ELSE "none"
              /\ week_idx' = IF weeks = <<>> THEN 0 ELSE 1
    /\ all_df_list' = <<>>
    /\ successful_weeks' = <<>>
    /\ failed_weeks' = <<>>
    /\ master_file' = "NotCalled"
    /\ master_at_start' = master_csv
    /\ years_at_start' = row_years
    /\ attempted' = <<>>
    /\ fault' = "none"
    /\ writes' = 0
    /\ UNCHANGED <<master_csv, gen, row_years, daysVars, classifyVars,
                   schemaVars, weekVars>>

\* A run over the year inputs and the week inputs of the run.
Start == StartWith(YearInputs, RunInputs)

\* A slip: a week counts as processed whatever process_week returned.
WeekSucceededAlways(df_list) == TRUE

\* if df_list: of line 375.
WeekSucceeded(df_list) == df_list # <<>>

\* A slip: the loop of line 368 stops at the first week that failed.
AfterWeekBreak(idx, weeks, df_list) ==
    IF df_list = <<>> THEN Len(weeks) + 1 ELSE idx + 1

\* The position of the loop of line 368 after one turn.
AfterWeek(idx, weeks, df_list) == idx + 1

\* One turn of the loop of lines 368-381 with the call of process_week
\* (its folder case and its walk are those of call, one of outcomes), and
\* after the last turn the summary and the early return of lines 391-393.
ProcessWeekWith(outcomes) ==
    /\ pc = "weeks"
    /\ \E call \in outcomes[week_numbers[week_idx]] :
          /\ LET week_num == week_numbers[week_idx]
                 df_list == call.df_list
                 all == IF WeekSucceeded(df_list) THEN all_df_list \o df_list
                        ELSE all_df_list
                 idx == AfterWeek(week_idx, week_numbers, df_list)
             IN  /\ all_df_list' = all
                 /\ successful_weeks' =
                        IF WeekSucceeded(df_list)
                        THEN Append(successful_weeks, week_num)
                        ELSE successful_weeks
                 /\ failed_weeks' =
                        IF WeekSucceeded(df_list) THEN failed_weeks
                        ELSE Append(failed_weeks, week_num)
                 /\ attempted' =
                        Append(attempted,
                               [week |-> week_num,
                                found |-> call.found,
                                tables |-> Len(df_list)])
                 /\ week_idx' = idx
                 /\ pc' = IF idx <= Len(week_numbers) THEN "weeks"
                          ELSE IF all = <<>> THEN "done"
                          ELSE "merge"
                 /\ outcome' = IF idx > Len(week_numbers) /\ all = <<>>
                               THEN "no_files" ELSE "none"
    /\ UNCHANGED <<year, week_input, week_numbers, master_file, master_csv,
                   master_at_start, gen, row_years, years_at_start, fault,
                   writes,
                   daysVars, classifyVars, schemaVars, weekVars>>

\* A turn of the loop over the week folders of the run.
ProcessWeek == ProcessWeekWith(WeekOutcomes)

\* What a write that raises can leave in the file: the file as it was (the
\* file could not be opened) or the header and the first rows of the new
\* table.
PartialWrites(csv, df_list, processed_weeks) ==
    LET new == to_csv(master_df(csv, df_list, processed_weeks))
    IN  {csv} \cup {FileOf(SubSeq(new, 1, k)) : k \in 0..(Len(new) - 1)}

\* Whose rows the table of lines 266-294 holds, week by week: the years in
\* by of a week with rows kept from the file, and the year y of the run for
\* a week with rows in df_list.
YearsOfRows(csv, df_list, processed_weeks, y, by) ==
    LET kept == IF csv.exists
                THEN RemoveProcessed(read_csv(csv.rows), processed_weeks)
                ELSE <<>>
        current_data_df == Concat(df_list)
    IN  [w \in WeekIds |->
            (IF RowsOfWeek(kept, w) # <<>> THEN by[w] ELSE {})
            \cup (IF RowsOfWeek(current_data_df, w) # <<>> THEN {y} ELSE {})]

\* Lines 396-404: create_master_file and the final message.
CreateMaster ==
    /\ pc = "merge"
    /\ \E flt \in Faults :
        \E written \in PartialWrites(master_csv, all_df_list, successful_weeks) :
          /\ flt = "load" => master_csv.exists
          /\ flt # "write" => written = master_csv
          /\ LET r == create_master_file(all_df_list, successful_weeks,
                                         master_csv, flt, written)
             IN  /\ master_csv' = r.csv
                 /\ master_file' = r.ret
                 /\ writes' = IF r.wrote THEN writes + 1 ELSE writes
                 /\ outcome' = IF r.ret = "None" THEN "failed" ELSE "completed"
                 /\ gen' = IF r.wrote /\ r.csv # master_csv
                           THEN [w \in WeekIds |->
                                   IF \E i \in 1..Len(successful_weeks) :
                                         successful_weeks[i] = w
                                   THEN RowsOfWeek(
                                          to_csv(master_df(master_csv, all_df_list,
                                                           successful_weeks)), w)
                                   ELSE gen[w]]
                           ELSE gen
                 /\ row_years' =
                       IF r.wrote /\ flt # "write"
                       THEN YearsOfRows(master_csv, all_df_list,
                                        successful_weeks, year, row_years)
                       ELSE IF r.csv # master_csv
                       THEN [w \in WeekIds |->
                               IF RowsOfWeek(r.csv.rows, w) = <<>> THEN {}
                               ELSE YearsOfRows(master_csv, all_df_list,
                                                successful_weeks, year,
                                                row_years)[w]]
                       ELSE row_years
          /\ fault' = flt
    /\ pc' = "done"
    /\ UNCHANGED <<year, week_input, week_numbers, week_idx, all_df_list,
                   successful_weeks, failed_weeks, master_at_start, years_at_start, attempted,
                   daysVars, classifyVars, schemaVars, weekVars>>

Next == Start \/ ProcessWeek \/ CreateMaster

Spec == InitRun /\ [][Next]_vars

(***************************************************************************)
(* Runs for two years over one master file.  process_week reads the week   *)
(* folder under base_path / str(year) (lines 190-195), so the runs of two  *)
(* years read different folders; nothing of the year reaches the rows      *)
(* (lines 159-161) or create_master_file, which never reads its year       *)
(* argument (lines 258-331).                                               *)
(***************************************************************************)

TwoYears == { <<"2", "0", "2", "4">>, <<"2", "0", "2", "5">> }
YearsRunInputs == { <<"5">>, <<"5", "-", "6">> }

\* The files of a week folder of these runs: a template file and an export
\* file, each with the first row of the sheet of its layout.
YearsEntries ==
    { [name |-> FrLsTemplate \o SufXlsx,
       read |-> [ContentTemplate EXCEPT !.rows = SubSeq(@, 1, 1)]],
      [name |-> FrExportLongstandings \o SufCsv,
       read |-> [ContentExport EXCEPT !.rows = SubSeq(@, 1, 1)]] }

\* The most files a week folder of these runs holds.
MaxYearFiles == 1

\* What process_week can give for week w in these runs.
YearsOutcomes ==
    [w \in WeekIds |->
        {[found |-> WeekPath(existing) # 0,
          df_list |-> process_week(w, existing, listing)]
         : existing \in { {}, {1} },
           listing \in Listings(YearsEntries, MaxYearFiles)}]

StartYears == StartWith(TwoYears, YearsRunInputs)
ProcessWeekYears == ProcessWeekWith(YearsOutcomes)

NextYears == StartYears \/ ProcessWeekYears \/ CreateMaster

SpecYears == InitRun /\ [][NextYears]_vars

(***************************************************************************)
(* Tables compared as data: a number by its value (3 and 3.0 are the same  *)
(* number), a text by its characters, rows with their multiplicity.        *)
(***************************************************************************)

ByValue(c) ==
    IF IsNumber(c) THEN [type |-> "number", text |-> <<>>, twice |-> c.twice]
    ELSE c
RowsByValue(rows) ==
    [r \in 1..Len(rows) |-> [h \in 1..Len(rows[r]) |-> ByValue(rows[r][h])]]

\* The rows of a table with their multiplicity.
BagOfRows(rows) ==
    LET v == RowsByValue(rows)
    IN  [row \in {v[r] : r \in 1..Len(v)} |->
            Cardinality({r \in 1..Len(v) : v[r] = row})]
SubBagOfRows(a, b) ==
    LET ba == BagOfRows(a)
        bb == BagOfRows(b)
    IN  \A row \in DOMAIN ba : row \in DOMAIN bb /\ ba[row] <= bb[row]

\* The weeks of a list, and the rows of a table whose Week is or is not
\* among weeks.
WeekSet(weeks) == {weeks[i] : i \in 1..Len(weeks)}
RowsIn(rows, weeks) ==
    LET In(row) == \E w \in weeks : row[Col("Week")] = PyInt(w)
    IN  SelectSeq(rows, In)
RowsNotIn(rows, weeks) ==
    LET Out(row) == \A w \in weeks : row[Col("Week")] # PyInt(w)
    IN  SelectSeq(rows, Out)

\* The run called create_master_file and line 297 wrote the whole table.
Merged == pc = "done" /\ writes = 1 /\ fault \in {"none", "report"}

C1_MergeIdempotentText ==
    Merged =>
        to_csv(master_df(master_csv, all_df_list, successful_weeks))
            = master_csv.rows

C2_ReplaceByPeriod ==
    /\ Merged =>
         /\ BagOfRows(RowsIn(master_csv.rows, WeekSet(successful_weeks)))
               = BagOfRows(to_csv(Concat(all_df_list)))
         /\ BagOfRows(RowsNotIn(master_csv.rows, WeekSet(successful_weeks)))
               = BagOfRows(RowsNotIn(master_at_start.rows,
                                     WeekSet(successful_weeks)))
    /\ pc # "off" =>
         \A w \in WeekIds :
            SubBagOfRows(RowsIn(master_csv.rows, {w}), gen[w])

\* C2 witness: a merge for week 5 has replaced the rows of week 5 the file
\* held by different ones and kept its rows of week 6.
C2_Witness ==
    /\ Merged /\ fault = "none"
    /\ successful_weeks = <<5>>
    /\ RowsIn(master_at_start.rows, {5}) # <<>>
    /\ BagOfRows(RowsIn(master_at_start.rows, {5}))
          # BagOfRows(to_csv(Concat(all_df_list)))
    /\ RowsIn(master_csv.rows, {6}) # <<>>

\* The run called process_week for week w and got no table.
CameBackEmpty(w) ==
    \E i \in 1..Len(attempted) :
        attempted[i].week = w /\ attempted[i].tables = 0

\* The run is over and was one for period 5 whose new-record set is empty,
\* over a master table that held rows of period 5.
EmptyRerunOfFive ==
    /\ pc = "done"
    /\ CameBackEmpty(5)
    /\ RowsIn(master_at_start.rows, {5}) # <<>>

\* C3 as stated (empty re-run removes the period).  When the master table
\* holds rows of period 5 and a run for period 5 produces an empty
\* new-record set, after the run the master table holds no row of period 5
\* and the rows of the other periods are unchanged.
C3_EmptyRerunRemovesPeriod ==
    (EmptyRerunOfFive /\ week_numbers = <<5>>) =>
        /\ RowsIn(master_csv.rows, {5}) = <<>>
        /\ BagOfRows(RowsNotIn(master_csv.rows, {5}))
              = BagOfRows(RowsNotIn(master_at_start.rows, {5}))

\* C3 amended (empty re-run keeps the period).  When the master table
\* holds rows of period 5 and a run for period 5 produces an empty
\* new-record set, period 5 is recorded as failed and is no part of the
\* merge: a run for period 5 alone writes nothing and leaves the master
\* file as it was, and a run that merged other periods has kept the rows of
\* period 5.
C3_EmptyRerunKeepsPeriod ==
    EmptyRerunOfFive =>
        /\ 5 \in WeekSet(failed_weeks)
        /\ 5 \notin WeekSet(successful_weeks)
        /\ week_numbers = <<5>> =>
              /\ master_file = "NotCalled" /\ writes = 0
              /\ master_csv = master_at_start
        /\ Merged =>
              BagOfRows(RowsIn(master_csv.rows, {5}))
                  = BagOfRows(RowsIn(master_at_start.rows, {5}))

\* C3 witness: a run for period 5 alone found its folder, got no table
\* from it and ended over a master file that holds rows of period 5.
C3_Witness ==
    /\ EmptyRerunOfFive
    /\ week_numbers = <<5>>
    /\ attempted = <<[week |-> 5, found |-> TRUE, tables |-> 0]>>
    /\ outcome = "no_files"
    /\ RowsIn(master_csv.rows, {5}) # <<>>

\* A run for periods 5 and 6 got nothing for 5, merged 6 and kept the rows
\* of period 5.
C3_WitnessMerged ==
    /\ EmptyRerunOfFive /\ Merged
    /\ successful_weeks = <<6>>
    /\ RowsIn(master_csv.rows, {5}) # <<>>

\* The weeks process_week has been called for, in call order.
AttemptedWeeks == [i \in 1..Len(attempted) |-> attempted[i].week]

\* C9 (per-period failure isolation).  The weeks are attempted one at a
\* time in ascending order: the calls so far are a prefix of the sorted
\* week list.  A week whose folder exists under no convention comes back
\* empty and is in failed_weeks.  Every attempted week is in exactly one of
\* successful_weeks and failed_weeks, and once the loop is over every
\* requested week has been attempted, whatever failed before it.
C9_PeriodIsolation ==
    pc \in {"weeks", "merge", "done"} =>
        /\ \A i, j \in 1..Len(week_numbers) :
              i < j => week_numbers[i] < week_numbers[j]
        /\ Len(attempted) <= Len(week_numbers)
        /\ AttemptedWeeks = SubSeq(week_numbers, 1, Len(attempted))
        /\ \A i \in 1..Len(attempted) :
              /\ ~attempted[i].found =>
                    /\ attempted[i].tables = 0
                    /\ attempted[i].week \in WeekSet(failed_weeks)
              /\ attempted[i].week \in WeekSet(successful_weeks)
                    <=> attempted[i].week \notin WeekSet(failed_weeks)
        /\ WeekSet(successful_weeks) \cup WeekSet(failed_weeks)
              = WeekSet(AttemptedWeeks)
        /\ Len(successful_weeks) + Len(failed_weeks) = Len(attempted)
        /\ pc \in {"merge", "done"} => AttemptedWeeks = week_numbers

\* C9 witness: the folder of week 5 was not found, week 6 was still
\* processed, and the loop is over.
C9_Witness ==
    /\ pc \in {"merge", "done"}
    /\ week_numbers = <<5, 6>>
    /\ ~attempted[1].found
    /\ attempted[2].tables > 0
    /\ failed_weeks = <<5>>
    /\ successful_weeks = <<6>>

\* C10 (no partial overwrite on merge failure).  A run writes the master
\* file at most once, and only when reading the existing file and
\* filtering, concatenating and sorting did not raise, so that the table
\* written is the whole merged and sorted table; when one of them raised,
\* create_master_file returned None, the run reported failure and the
\* master file is what it was before the run.
C10_NoPartialOverwrite ==
    /\ writes <= 1
    /\ writes = 1 => fault \in {"none", "write", "report"}
    /\ Merged =>
          master_csv = FileOf(to_csv(master_df(master_at_start, all_df_list,
                                               successful_weeks)))
    /\ (pc = "done" /\ fault \in {"load", "merge"}) =>
          /\ master_file = "None"
          /\ outcome = "failed"
          /\ writes = 0
          /\ master_csv = master_at_start

\* C10 witness: the merge raised while sorting over an existing master file
\* with rows; the file is as before and the run reported failure.
C10_Witness ==
    /\ pc = "done" /\ fault = "merge"
    /\ master_at_start.exists /\ Len(master_at_start.rows) > 0
    /\ all_df_list # <<>>
    /\ master_csv = master_at_start
    /\ master_file = "None"

\* The existing master file could not be read.
C10_WitnessLoad ==
    /\ pc = "done" /\ fault = "load"
    /\ master_csv = master_at_start /\ master_csv.exists
    /\ outcome = "failed"

\* C11 (the merge key is the week alone).  After a merge by a run for one
\* year, the master rows of every week the run processed are the rows of
\* that run and of no other: no row of such a week written by a run for
\* another year is left, whatever the years of the runs that wrote the file
\* before.
C11_WeekAloneIsKey ==
    Merged =>
        \A w \in WeekSet(successful_weeks) :
            /\ row_years[w] = {year}
            /\ BagOfRows(RowsIn(master_csv.rows, {w}))
                  = BagOfRows(RowsIn(to_csv(Concat(all_df_list)), {w}))

\* C11 witness: the file held rows of week 5 written by a run for another
\* year only, with other contents than this run found, and the run has
\* processed week 5 and merged.
C11_Witness ==
    /\ Merged /\ fault = "none"
    /\ 5 \in WeekSet(successful_weeks)
    /\ years_at_start[5] # {} /\ year \notin years_at_start[5]
    /\ RowsIn(master_at_start.rows, {5}) # <<>>
    /\ BagOfRows(RowsIn(master_at_start.rows, {5}))
          # BagOfRows(RowsIn(master_csv.rows, {5}))
    /\ row_years[5] = {year}

\* C11 witness: the same run left the rows of week 6, written by a run for
\* the other year, in the file.
C11_WitnessOtherWeek ==
    /\ C11_Witness
    /\ 6 \notin WeekSet(successful_weeks)
    /\ row_years[6] # {} /\ year \notin row_years[6]
    /\ RowsIn(master_csv.rows, {6}) # <<>>

=============================================================================
